---- MODULE Spec2Model ----
(***************************************************************************)
(* CPU scheduling simulator (src/scheduler.py).                            *)
(*                                                                         *)
(* The caller builds a list of Process objects and hands it to the four    *)
(* algorithm instances of one CPUScheduler.  Python's reference semantics  *)
(* are kept: Process objects live in `heap` and lists hold addresses, the  *)
(* timeline dicts live in `dicts` and instance fields and results hold     *)
(* dict addresses.  Each scheduling loop advances one iteration per step.  *)
(***************************************************************************)
EXTENDS Integers, Sequences, FiniteSets

VARIABLES
    heap,        \* Process objects by address (a sequence of records)
    callerList,  \* the caller's list: addresses into heap
    dicts,       \* execution_timeline dict objects by address
    sched,       \* the four scheduler instances' fields
    frame,       \* local variables of the schedule call in progress
    pc,          \* where the program is: "idle", a loop, or "raised"
    results      \* what the caller holds: the results returned so far

vars == <<heap, callerList, dicts, sched, frame, pc, results>>

(***************************************************************************)
(* Bounds of the exploration.                                              *)
(***************************************************************************)
MaxProcs == 3
MaxArrival == 2
MaxBurst == 2
MaxPriority == 1
MaxQuantum == 2
MaxCalls == 2
MaxSessionProcs == 2
MaxRunaway == 3
MaxReuseCalls == 3
MaxConcCalls == 3

(***************************************************************************)
(* Small helpers on sequences.                                             *)
(***************************************************************************)
Range(s) == {s[i] : i \in DOMAIN s}

RECURSIVE SumSeq(_)
SumSeq(s) == IF s = <<>> THEN 0 ELSE s[1] + SumSeq(Tail(s))

MinOf(S) == CHOOSE x \in S : \A y \in S : x <= y

MaxOf(S) == CHOOSE x \in S : \A y \in S : x >= y

(***************************************************************************)
(* Process: the dataclass and __post_init__.                               *)
(***************************************************************************)
Process(pid, arrival_time, burst_time, priority) ==
    [pid |-> pid, arrival_time |-> arrival_time, burst_time |-> burst_time,
     priority |-> priority, remaining_time |-> burst_time,
     wait_time |-> 0, turnaround_time |-> 0, completion_time |-> 0]

(* The arguments the caller constructs processes with: the valid grid and  *)
(* three tuples <<arrival, burst, priority>> outside the data model, which *)
(* the constructor takes as well.                                          *)
ProcessArgs ==
    ((0..MaxArrival) \X (1..MaxBurst) \X (0..MaxPriority))
        \cup {<<-1, 1, 0>>, <<0, 0, 0>>, <<0, -1, 0>>}

(* pid of the next process: its position (as app.py numbers them); the     *)
(* second process may instead repeat pid 1.                                *)
PidChoices(n) == IF n = 1 THEN {1, 2} ELSE {n + 1}

Quanta == (-1)..MaxQuantum

(* The sample data of app.py and the two-process round-robin sample.       *)
SampleProcesses ==
    << Process(1, 0, 8, 2), Process(2, 1, 4, 1),
       Process(3, 2, 2, 3), Process(4, 3, 1, 2) >>

FairnessSample == << Process(1, 0, 5, 0), Process(2, 0, 5, 0) >>

Presets == {SampleProcesses, FairnessSample}

(***************************************************************************)
(* copy.deepcopy(processes): fresh objects with the same field values.     *)
(***************************************************************************)
CopyAddrsAliased(h, list) == list

CopyAddrs(h, list) == [i \in 1..Len(list) |-> Len(h) + i]

CopyHeap(h, list) == h \o [i \in 1..Len(list) |-> h[list[i]]]

(***************************************************************************)
(* sorted(..., key=lambda p: p.arrival_time): a stable sort, returning a   *)
(* new list.                                                               *)
(***************************************************************************)
RECURSIVE InsertByArrival(_, _, _)
InsertByArrival(h, sorted, a) ==
    IF sorted = <<>> THEN <<a>>
    ELSE IF h[a].arrival_time < h[sorted[Len(sorted)]].arrival_time
         THEN Append(InsertByArrival(h, SubSeq(sorted, 1, Len(sorted) - 1), a),
                     sorted[Len(sorted)])
         ELSE Append(sorted, a)

RECURSIVE SortedByArrival(_, _)
SortedByArrival(h, list) ==
    IF list = <<>> THEN <<>>
    ELSE InsertByArrival(h, SortedByArrival(h, SubSeq(list, 1, Len(list) - 1)),
                         list[Len(list)])

(***************************************************************************)
(* execution_timeline: a dict pid -> {'intervals': [...]} in insertion     *)
(* order, kept as a sequence of entries.                                   *)
(***************************************************************************)
HasKey(d, pid) == \E i \in DOMAIN d : d[i].pid = pid

KeyIndex(d, pid) == CHOOSE i \in DOMAIN d : d[i].pid = pid

Keys(d) == [i \in DOMAIN d |-> d[i].pid]

\* if pid not in timeline: timeline[pid] = {'intervals': []}; then append
RecordInterval(d, pid, start_time, end_time) ==
    IF HasKey(d, pid)
    THEN [d EXCEPT ![KeyIndex(d, pid)].intervals =
              Append(@, <<start_time, end_time>>)]
    ELSE Append(d, [pid |-> pid, intervals |-> << <<start_time, end_time>> >>])

(***************************************************************************)
(* BaseScheduler.calculate_metrics and get_process_stats.  A quotient is   *)
(* kept exact as <<numerator, denominator>>; a dict is a function on its   *)
(* keys.                                                                   *)
(***************************************************************************)
MetricKeys ==
    {"avg_wait_time", "avg_turnaround_time", "total_time",
     "cpu_utilization", "context_switches"}

calculate_metrics(ps, context_switches) ==
    IF ps = <<>> THEN [keys |-> {}]
    ELSE LET total_wait == SumSeq([i \in DOMAIN ps |-> ps[i].wait_time])
             total_turnaround ==
                 SumSeq([i \in DOMAIN ps |-> ps[i].turnaround_time])
             busy_time == SumSeq([i \in DOMAIN ps |-> ps[i].burst_time])
             earliest_arrival == MinOf({ps[i].arrival_time : i \in DOMAIN ps})
             last_completion == MaxOf({ps[i].completion_time : i \in DOMAIN ps})
             total_time == IF last_completion > earliest_arrival
                           THEN last_completion - earliest_arrival ELSE 0
         IN [keys |-> MetricKeys,
             avg_wait_time |-> <<total_wait, Len(ps)>>,
             avg_turnaround_time |-> <<total_turnaround, Len(ps)>>,
             total_time |-> total_time,
             cpu_utilization |-> IF total_time > 0
                                 THEN <<busy_time * 100, total_time>>
                                 ELSE <<0, 1>>,
             context_switches |-> context_switches]

get_process_stats(ps) ==
    [i \in DOMAIN ps |->
        [PID |-> ps[i].pid, Arrival |-> ps[i].arrival_time,
         Burst |-> ps[i].burst_time, WaitTime |-> ps[i].wait_time,
         Turnaround |-> ps[i].turnaround_time,
         Completion |-> ps[i].completion_time]]

(***************************************************************************)
(* The state after construction: an empty caller list, a CPUScheduler with *)
(* its four instances, each holding its own empty timeline dict.           *)
(***************************************************************************)
NoFrame ==
    [alg |-> "none", quantum |-> 0, processes |-> <<>>, current_time |-> 0,
     i |-> 0, last_pid |-> <<>>, completed |-> <<>>, ready_queue |-> <<>>,
     process_idx |-> 0, n_completed |-> 0]

Init ==
    /\ heap = <<>>
    /\ callerList = <<>>
    /\ dicts = << <<>>, <<>>, <<>>, <<>> >>
    /\ sched = [fcfs |-> [execution_timeline |-> 1, context_switches |-> 0],
                sjf |-> [execution_timeline |-> 2, context_switches |-> 0],
                rr |-> [execution_timeline |-> 3, context_switches |-> 0],
                priority |-> [execution_timeline |-> 4, context_switches |-> 0]]
    /\ frame = NoFrame
    /\ pc = "idle"
    /\ results = <<>>

(***************************************************************************)
(* The caller: constructing processes (app.py) and loading a sample.       *)
(***************************************************************************)
NewProcess ==
    /\ pc = "idle"
    /\ results = <<>>
    /\ Len(callerList) < MaxProcs
    /\ \E pid \in PidChoices(Len(callerList)), args \in ProcessArgs :
          /\ heap' = Append(heap, Process(pid, args[1], args[2], args[3]))
          /\ callerList' = Append(callerList, Len(heap) + 1)
    /\ UNCHANGED <<dicts, sched, frame, pc, results>>

LoadSample ==
    /\ pc = "idle"
    /\ results = <<>>
    /\ callerList = <<>>
    /\ \E sample \in Presets :
          /\ heap' = sample
          /\ callerList' = [i \in 1..Len(sample) |-> i]
    /\ UNCHANGED <<dicts, sched, frame, pc, results>>

\* A session of several calls is explored on lists of up to MaxSessionProcs.
CanCall ==
    /\ pc = "idle"
    /\ Len(results) < MaxCalls
    /\ (results = <<>> \/ Len(callerList) <= MaxSessionProcs)

(***************************************************************************)
(* Round Robin's arrival cursor: `while process_idx < len(processes) and   *)
(* processes[process_idx].arrival_time <= current_time`, which opens every *)
(* iteration of the main loop.  A state at "rr_loop" is the loop just      *)
(* after this cursor has run.                                              *)
(***************************************************************************)
RECURSIVE Admit(_, _)
Admit(h, f) ==
    IF /\ f.process_idx <= Len(f.processes)
       /\ h[f.processes[f.process_idx]].arrival_time <= f.current_time
    THEN Admit(h, [f EXCEPT !.ready_queue = Append(@, f.processes[f.process_idx]),
                            !.process_idx = @ + 1])
    ELSE f

\* `while completed < len(processes)` followed by the cursor
LoopTop(h, f) ==
    IF f.alg = "rr" /\ f.n_completed < Len(f.processes) THEN Admit(h, f) ELSE f

LoopPc(alg) ==
    CASE alg = "fcfs" -> "fcfs_loop"
      [] alg = "sjf" -> "sjf_loop"
      [] alg = "rr" -> "rr_loop"
      [] alg = "priority" -> "priority_loop"

(***************************************************************************)
(* What every schedule method does on entry and on return.                 *)
(***************************************************************************)
EnterClearsTimeline(alg, quantum) ==
    LET h2 == CopyHeap(heap, callerList)
        work == SortedByArrival(h2, CopyAddrs(heap, callerList))
    IN /\ heap' = h2
       /\ dicts' = Append([dicts EXCEPT ![sched[alg].execution_timeline] = <<>>],
                          <<>>)
       /\ sched' = [sched EXCEPT ![alg].context_switches = 0]
       /\ frame' = LoopTop(h2, [NoFrame EXCEPT !.alg = alg,
                                   !.quantum = quantum, !.processes = work,
                                   !.i = 1, !.process_idx = 1])
       /\ pc' = LoopPc(alg)
       /\ UNCHANGED <<callerList, results>>

EnterKeepsFields(alg, quantum) ==
    LET h2 == CopyHeap(heap, callerList)
        work == SortedByArrival(h2, CopyAddrs(heap, callerList))
    IN /\ heap' = h2
       /\ frame' = LoopTop(h2, [NoFrame EXCEPT !.alg = alg,
                                   !.quantum = quantum, !.processes = work,
                                   !.i = 1, !.process_idx = 1])
       /\ pc' = LoopPc(alg)
       /\ UNCHANGED <<callerList, results, dicts, sched>>

\* processes = sorted(copy.deepcopy(processes), ...); the two fields reset
Enter(alg, quantum) ==
    LET h2 == CopyHeap(heap, callerList)
        work == SortedByArrival(h2, CopyAddrs(heap, callerList))
    IN /\ heap' = h2
       /\ dicts' = Append(dicts, <<>>)
       /\ sched' = [sched EXCEPT ![alg] =
                       [execution_timeline |-> Len(dicts) + 1,
                        context_switches |-> 0]]
       /\ frame' = LoopTop(h2, [NoFrame EXCEPT !.alg = alg,
                                   !.quantum = quantum, !.processes = work,
                                   !.i = 1, !.process_idx = 1])
       /\ pc' = LoopPc(alg)
       /\ UNCHANGED <<callerList, results>>

\* metrics, process_stats and the returned dict; the working copies die.
\* The caller keeps the result with the arguments of the call.
Return(alg) ==
    LET ps == [i \in DOMAIN frame.processes |-> heap[frame.processes[i]]]
    IN /\ results' = Append(results,
              [alg |-> alg, quantum |-> frame.quantum,
               processes |-> [i \in DOMAIN callerList |-> heap[callerList[i]]],
               execution |-> sched[alg].execution_timeline,
               metrics |-> calculate_metrics(ps, sched[alg].context_switches),
               process_stats |-> get_process_stats(ps)])
       /\ heap' = SubSeq(heap, 1, Len(callerList))
       /\ frame' = NoFrame
       /\ pc' = "idle"
       /\ UNCHANGED <<callerList, dicts, sched>>

RunToCompletionWaitFromZero(p, start_time, end_time) ==
    [p EXCEPT !.wait_time = start_time,
              !.completion_time = end_time,
              !.turnaround_time = end_time - p.arrival_time]

\* wait_time, completion_time, turnaround_time of a process run in one piece
RunToCompletion(p, start_time, end_time) ==
    [p EXCEPT !.wait_time = start_time - p.arrival_time,
              !.completion_time = end_time,
              !.turnaround_time = end_time - p.arrival_time]

SwitchedOnEveryDispatch(last_pid, pid) == last_pid # <<>>

\* last_executed_pid is not None and last_executed_pid != process.pid
Switched(last_pid, pid) == last_pid # <<>> /\ last_pid # <<pid>>

(***************************************************************************)
(* FCFSScheduler.schedule                                                  *)
(***************************************************************************)
CallFCFS ==
    /\ CanCall
    /\ Enter("fcfs", 0)

FCFSStartAtArrival(current_time, arrival_time) == arrival_time

\* if current_time < process.arrival_time: current_time = arrival_time
FCFSStart(current_time, arrival_time) ==
    IF current_time < arrival_time THEN arrival_time ELSE current_time

\* one iteration of `for process in processes`
FCFSIter ==
    /\ pc = "fcfs_loop"
    /\ frame.i <= Len(frame.processes)
    /\ LET a == frame.processes[frame.i]
           p == heap[a]
           start_time == FCFSStart(frame.current_time, p.arrival_time)
           end_time == start_time + p.burst_time
           tl == sched.fcfs.execution_timeline
           switch == Switched(frame.last_pid, p.pid)
       IN /\ heap' = [heap EXCEPT ![a] = RunToCompletion(p, start_time, end_time)]
          /\ dicts' = [dicts EXCEPT ![tl] =
                          RecordInterval(@, p.pid, start_time, end_time)]
          /\ sched' = [sched EXCEPT !.fcfs.context_switches =
                          IF switch THEN @ + 1 ELSE @]
          /\ frame' = [frame EXCEPT !.i = @ + 1, !.current_time = end_time,
                                    !.last_pid = <<p.pid>>]
    /\ UNCHANGED <<callerList, pc, results>>

FCFSReturn ==
    /\ pc = "fcfs_loop"
    /\ frame.i > Len(frame.processes)
    /\ Return("fcfs")

(***************************************************************************)
(* SJFScheduler.schedule and PriorityScheduler.schedule: the same loop     *)
(* with a different selection key.                                         *)
(***************************************************************************)
\* `p in completed`: list membership, by identity or by dataclass equality
InList(h, list, a) ==
    \E j \in DOMAIN list : list[j] = a \/ h[list[j]] = h[a]

AvailableBeforeArrival(h, f) ==
    SelectSeq(f.processes, LAMBDA a : ~InList(h, f.completed, a))

\* [p for p in processes if p.arrival_time <= current_time and p not in completed]
Available(h, f) ==
    SelectSeq(f.processes,
              LAMBDA a : h[a].arrival_time <= f.current_time
                         /\ ~InList(h, f.completed, a))

\* the processes `p not in completed` ranges over in the idle branch
Pending(h, f) == SelectSeq(f.processes, LAMBDA a : ~InList(h, f.completed, a))

\* min(available, key=lambda p: p.burst_time): the first of the smallest
MinByBurst(h, available) ==
    available[CHOOSE i \in DOMAIN available :
        /\ \A j \in DOMAIN available :
              h[available[j]].burst_time >= h[available[i]].burst_time
        /\ \A j \in DOMAIN available :
              j < i => h[available[j]].burst_time > h[available[i]].burst_time]

\* min(available, key=lambda p: p.priority)
MinByPriority(h, available) ==
    available[CHOOSE i \in DOMAIN available :
        /\ \A j \in DOMAIN available :
              h[available[j]].priority >= h[available[i]].priority
        /\ \A j \in DOMAIN available :
              j < i => h[available[j]].priority > h[available[i]].priority]

Selected(alg, h, available) ==
    IF alg = "sjf" THEN MinByBurst(h, available) ELSE MinByPriority(h, available)

NextArrivalLatest(h, f) ==
    MaxOf({h[a].arrival_time : a \in Range(Pending(h, f))})

NextArrivalOfAll(h, f) ==
    MinOf({h[a].arrival_time : a \in Range(f.processes)})

\* min(p.arrival_time for p in processes if p not in completed)
NextArrival(h, f) ==
    MinOf({h[a].arrival_time : a \in Range(Pending(h, f))})

\* if not available: current_time = the next arrival; continue
SelectIdle(alg) ==
    /\ pc = LoopPc(alg)
    /\ Len(frame.completed) < Len(frame.processes)
    /\ Available(heap, frame) = <<>>
    /\ Pending(heap, frame) # <<>>
    /\ frame' = [frame EXCEPT !.current_time = NextArrival(heap, frame)]
    /\ UNCHANGED <<heap, callerList, dicts, sched, pc, results>>

\* min() of an empty sequence: ValueError leaves schedule
SelectRaise(alg) ==
    /\ pc = LoopPc(alg)
    /\ Len(frame.completed) < Len(frame.processes)
    /\ Available(heap, frame) = <<>>
    /\ Pending(heap, frame) = <<>>
    /\ pc' = "raised"
    /\ UNCHANGED <<heap, callerList, dicts, sched, frame, results>>

\* select, run to completion, record, count the switch, mark completed
SelectDispatch(alg) ==
    /\ pc = LoopPc(alg)
    /\ Len(frame.completed) < Len(frame.processes)
    /\ Available(heap, frame) # <<>>
    /\ LET a == Selected(alg, heap, Available(heap, frame))
           p == heap[a]
           start_time == frame.current_time
           end_time == frame.current_time + p.burst_time
           tl == sched[alg].execution_timeline
           d2 == RecordInterval(dicts[tl], p.pid, start_time, end_time)
           switch == Len(d2) > 1 /\ Keys(d2)[Len(d2) - 1] # p.pid
       IN /\ heap' = [heap EXCEPT ![a] = RunToCompletion(p, start_time, end_time)]
          /\ dicts' = [dicts EXCEPT ![tl] = d2]
          /\ sched' = [sched EXCEPT ![alg].context_switches =
                          IF switch THEN @ + 1 ELSE @]
          /\ frame' = [frame EXCEPT !.completed = Append(@, a),
                                    !.current_time = end_time]
    /\ UNCHANGED <<callerList, pc, results>>

SelectReturn(alg) ==
    /\ pc = LoopPc(alg)
    /\ Len(frame.completed) >= Len(frame.processes)
    /\ Return(alg)

CallSJF ==
    /\ CanCall
    /\ Enter("sjf", 0)

SJFIdle == SelectIdle("sjf")

SJFRaise == SelectRaise("sjf")

SJFDispatch == SelectDispatch("sjf")

SJFReturn == SelectReturn("sjf")

CallPriority ==
    /\ CanCall
    /\ Enter("priority", 0)

PriorityIdle == SelectIdle("priority")

PriorityRaise == SelectRaise("priority")

PriorityDispatch == SelectDispatch("priority")

PriorityReturn == SelectReturn("priority")

(***************************************************************************)
(* RoundRobinScheduler.schedule                                            *)
(***************************************************************************)
NumIntervals(d) == SumSeq([i \in DOMAIN d |-> Len(d[i].intervals)])

CallRR ==
    /\ CanCall
    /\ \E quantum \in Quanta : Enter("rr", quantum)

ExecTimeFullQuantum(quantum, remaining_time) == quantum

\* exec_time = min(quantum, process.remaining_time)
ExecTime(quantum, remaining_time) ==
    IF quantum <= remaining_time THEN quantum ELSE remaining_time

\* if not ready_queue: jump to the next arrival (if any); continue
RRIdle ==
    /\ pc = "rr_loop"
    /\ frame.n_completed < Len(frame.processes)
    /\ frame.ready_queue = <<>>
    /\ frame' = LoopTop(heap,
          IF frame.process_idx <= Len(frame.processes)
          THEN [frame EXCEPT !.current_time =
                   heap[frame.processes[frame.process_idx]].arrival_time]
          ELSE frame)
    /\ UNCHANGED <<heap, callerList, dicts, sched, pc, results>>

\* the processes the cursor admits when it runs on f: those that arrived
Arrivals(h, f) ==
    SubSeq(f.processes, f.process_idx, Admit(h, f).process_idx - 1)

\* the ready queue after a slice: the arrivals of the slice are appended
\* first, then the process that ran if it has work left
RequeueBeforeArrivals(queue, arrivals, a, remaining_time) ==
    IF remaining_time > 0 THEN (Append(queue, a)) \o arrivals
    ELSE queue \o arrivals

Requeue(queue, arrivals, a, remaining_time) ==
    IF remaining_time > 0 THEN Append(queue \o arrivals, a)
    ELSE queue \o arrivals

\* dequeue, run one slice, record it, admit the arrivals, re-queue or finish.
\* A loop that a quantum <= 0 keeps from ending is followed for MaxRunaway
\* slices.
RRSlice ==
    /\ pc = "rr_loop"
    /\ frame.n_completed < Len(frame.processes)
    /\ frame.ready_queue # <<>>
    /\ frame.quantum > 0 \/ NumIntervals(dicts[sched.rr.execution_timeline]) < MaxRunaway
    /\ LET a == Head(frame.ready_queue)
           p == heap[a]
           exec_time == ExecTime(frame.quantum, p.remaining_time)
           start_time == frame.current_time
           end_time == frame.current_time + exec_time
           tl == sched.rr.execution_timeline
           switch == Switched(frame.last_pid, p.pid)
           remaining == p.remaining_time - exec_time
           f1 == [frame EXCEPT !.current_time = end_time]
           f2 == Admit(heap, f1)
           finished == remaining <= 0
       IN /\ sched' = [sched EXCEPT !.rr.context_switches =
                          IF switch THEN @ + 1 ELSE @]
          /\ dicts' = [dicts EXCEPT ![tl] =
                          RecordInterval(@, p.pid, start_time, end_time)]
          /\ heap' = [heap EXCEPT ![a] =
                IF finished
                THEN [p EXCEPT !.remaining_time = remaining,
                               !.completion_time = end_time,
                               !.turnaround_time = end_time - p.arrival_time,
                               !.wait_time = end_time - p.arrival_time - p.burst_time]
                ELSE [p EXCEPT !.remaining_time = remaining]]
          /\ frame' = LoopTop(heap',
                [f2 EXCEPT !.ready_queue =
                               Requeue(Tail(frame.ready_queue),
                                       Arrivals(heap, f1), a, remaining),
                           !.n_completed = IF finished THEN @ + 1 ELSE @,
                           !.last_pid = <<p.pid>>])
    /\ UNCHANGED <<callerList, pc, results>>

RRReturn ==
    /\ pc = "rr_loop"
    /\ frame.n_completed >= Len(frame.processes)
    /\ Return("rr")

Next ==
    \/ NewProcess
    \/ LoadSample
    \/ CallFCFS
    \/ FCFSIter
    \/ FCFSReturn
    \/ CallSJF
    \/ SJFIdle
    \/ SJFRaise
    \/ SJFDispatch
    \/ SJFReturn
    \/ CallRR
    \/ RRIdle
    \/ RRSlice
    \/ RRReturn
    \/ CallPriority
    \/ PriorityIdle
    \/ PriorityRaise
    \/ PriorityDispatch
    \/ PriorityReturn

Spec == Init /\ [][Next]_vars

(***************************************************************************)
(* Fairness: a schedule call that has started keeps running (the engine is *)
(* single-threaded and synchronous, nothing suspends it).                  *)
(***************************************************************************)
Step ==
    \/ FCFSIter \/ FCFSReturn
    \/ SJFIdle \/ SJFRaise \/ SJFDispatch \/ SJFReturn
    \/ RRIdle \/ RRSlice \/ RRReturn
    \/ PriorityIdle \/ PriorityRaise \/ PriorityDispatch \/ PriorityReturn

FairSpec == Spec /\ WF_vars(Step)

(***************************************************************************)
(* Reuse of the instances: a caller that keeps one CPUScheduler, passes a  *)
(* new list to each call and goes on after a call that raised.  The lists  *)
(* are drawn from ReuseLists; a session makes up to MaxReuseCalls calls.   *)
(***************************************************************************)
ReuseLists ==
    { <<>>,
      << Process(1, 0, 1, 0) >>,
      << Process(1, 2, 1, 0) >>,
      << Process(1, 0, 2, 1), Process(2, 0, 1, 0) >>,
      << Process(1, 0, 2, 1), Process(2, 1, 1, 0) >>,
      << Process(1, 0, 1, 0), Process(2, 2, 2, 0) >>,
      << Process(1, 0, 0, 0), Process(1, 0, 0, 0) >>,
      << Process(1, 1, 2, 0), Process(2, 0, 1, 1), Process(3, 0, 2, 0) >> }

\* the caller builds a new list of new Process objects
ReplaceList ==
    /\ pc = "idle"
    /\ Len(dicts) < 4 + MaxReuseCalls
    /\ \E list \in ReuseLists :
          /\ heap' = list
          /\ callerList' = [i \in 1..Len(list) |-> i]
    /\ UNCHANGED <<dicts, sched, frame, pc, results>>

\* every call so far made one timeline dict
ReuseCanCall == pc = "idle" /\ Len(dicts) < 4 + MaxReuseCalls

ReuseCallFCFS == ReuseCanCall /\ Enter("fcfs", 0)

ReuseCallSJF == ReuseCanCall /\ Enter("sjf", 0)

ReuseCallRR == ReuseCanCall /\ \E quantum \in Quanta : Enter("rr", quantum)

ReuseCallPriority == ReuseCanCall /\ Enter("priority", 0)

\* the ValueError reaches the caller, who drops the call and goes on
Catch ==
    /\ pc = "raised"
    /\ pc' = "idle"
    /\ frame' = NoFrame
    /\ heap' = SubSeq(heap, 1, Len(callerList))
    /\ UNCHANGED <<callerList, dicts, sched, results>>

ReuseNext ==
    \/ ReplaceList
    \/ ReuseCallFCFS
    \/ ReuseCallSJF
    \/ ReuseCallRR
    \/ ReuseCallPriority
    \/ Catch
    \/ Step

ReuseSpec == Init /\ [][ReuseNext]_vars

(***************************************************************************)
(* Two threads calling FCFSScheduler.schedule on one instance.  Here       *)
(* `frame` and `pc` hold one entry per thread; the instance fields in      *)
(* `sched` and the dicts are shared.  A step is one access to a shared     *)
(* field: the two resets, making the pid's timeline entry, the append, the *)
(* load and the store of `self.context_switches += 1`, the read of the     *)
(* counter in calculate_metrics and the read of the timeline for the       *)
(* result.  Every call is given the caller's one list; the threads make up *)
(* to MaxConcCalls calls between them.                                     *)
(***************************************************************************)
Threads == {1, 2}

ConcLists ==
    { << Process(1, 0, 1, 0), Process(2, 0, 1, 0) >>,
      << Process(1, 1, 1, 0), Process(2, 0, 2, 0), Process(3, 2, 1, 0) >> }

NoConcFrame ==
    [processes |-> <<>>, current_time |-> 0, i |-> 0, last_pid |-> <<>>,
     start_time |-> 0, end_time |-> 0, loaded |-> 0, metrics |-> <<>>,
     process_stats |-> <<>>, calls |-> 0, overlapped |-> FALSE]

ConcInit ==
    /\ \E list \in ConcLists :
          /\ heap = list
          /\ callerList = [i \in 1..Len(list) |-> i]
    /\ dicts = << <<>>, <<>>, <<>>, <<>> >>
    /\ sched = [fcfs |-> [execution_timeline |-> 1, context_switches |-> 0],
                sjf |-> [execution_timeline |-> 2, context_switches |-> 0],
                rr |-> [execution_timeline |-> 3, context_switches |-> 0],
                priority |-> [execution_timeline |-> 4, context_switches |-> 0]]
    /\ frame = [t \in Threads |-> NoConcFrame]
    /\ pc = [t \in Threads |-> "idle"]
    /\ results = <<>>

InCall(t) == pc[t] \notin {"idle", "raised"}

CallsMade == SumSeq([t \in 1..2 |-> frame[t].calls])

\* processes = sorted(copy.deepcopy(processes), ...), and the locals
ConcEnter(t) ==
    /\ pc[t] = "idle"
    /\ CallsMade < MaxConcCalls
    /\ LET h2 == CopyHeap(heap, callerList)
           work == SortedByArrival(h2, CopyAddrs(heap, callerList))
       IN /\ heap' = h2
          /\ frame' = [u \in Threads |->
                IF u = t
                THEN [NoConcFrame EXCEPT !.processes = work, !.i = 1,
                         !.calls = frame[t].calls + 1,
                         !.overlapped = \E v \in Threads \ {t} : InCall(v)]
                ELSE [frame[u] EXCEPT !.overlapped = @ \/ InCall(u)]]
    /\ pc' = [pc EXCEPT ![t] = "reset_counter"]
    /\ UNCHANGED <<callerList, dicts, sched, results>>

ConcKeepCounter(t) ==
    /\ pc[t] = "reset_counter"
    /\ pc' = [pc EXCEPT ![t] = "reset_timeline"]
    /\ UNCHANGED <<heap, callerList, dicts, sched, frame, results>>

\* self.context_switches = 0
ConcResetCounter(t) ==
    /\ pc[t] = "reset_counter"
    /\ sched' = [sched EXCEPT !.fcfs.context_switches = 0]
    /\ pc' = [pc EXCEPT ![t] = "reset_timeline"]
    /\ UNCHANGED <<heap, callerList, dicts, frame, results>>

\* self.execution_timeline = {}
ConcResetTimeline(t) ==
    /\ pc[t] = "reset_timeline"
    /\ dicts' = Append(dicts, <<>>)
    /\ sched' = [sched EXCEPT !.fcfs.execution_timeline = Len(dicts) + 1]
    /\ pc' = [pc EXCEPT ![t] = "loop"]
    /\ UNCHANGED <<heap, callerList, frame, results>>

\* if pid not in self.execution_timeline: self.execution_timeline[pid] = ...
EnsureEntry(d, pid) ==
    IF HasKey(d, pid) THEN d ELSE Append(d, [pid |-> pid, intervals |-> <<>>])

\* the times of the process, then the entry of its pid in the dict the
\* field holds now
ConcEnsureEntry(t) ==
    /\ pc[t] = "loop"
    /\ frame[t].i <= Len(frame[t].processes)
    /\ LET a == frame[t].processes[frame[t].i]
           p == heap[a]
           start_time == FCFSStart(frame[t].current_time, p.arrival_time)
           end_time == start_time + p.burst_time
           tl == sched.fcfs.execution_timeline
       IN /\ heap' = [heap EXCEPT ![a] = RunToCompletion(p, start_time, end_time)]
          /\ dicts' = [dicts EXCEPT ![tl] = EnsureEntry(@, p.pid)]
          /\ frame' = [frame EXCEPT ![t].start_time = start_time,
                                    ![t].end_time = end_time]
    /\ pc' = [pc EXCEPT ![t] = "append"]
    /\ UNCHANGED <<callerList, sched, results>>

\* self.execution_timeline[pid]['intervals'].append((start_time, end_time))
ConcAppend(t) ==
    /\ pc[t] = "append"
    /\ LET pid == heap[frame[t].processes[frame[t].i]].pid
           tl == sched.fcfs.execution_timeline
       IN /\ HasKey(dicts[tl], pid)
          /\ dicts' = [dicts EXCEPT ![tl][KeyIndex(dicts[tl], pid)].intervals =
                          Append(@, <<frame[t].start_time, frame[t].end_time>>)]
    /\ pc' = [pc EXCEPT ![t] = "count"]
    /\ UNCHANGED <<heap, callerList, sched, frame, results>>

\* the same line when the field holds a dict without the pid: KeyError
ConcKeyError(t) ==
    /\ pc[t] = "append"
    /\ ~HasKey(dicts[sched.fcfs.execution_timeline],
               heap[frame[t].processes[frame[t].i]].pid)
    /\ pc' = [pc EXCEPT ![t] = "raised"]
    /\ UNCHANGED <<heap, callerList, dicts, sched, frame, results>>

\* last_executed_pid = process.pid; current_time = end_time; next process
NextProcess(f, pid) ==
    [f EXCEPT !.i = @ + 1, !.current_time = f.end_time, !.last_pid = <<pid>>]

\* the test of the switch fails: nothing to count
ConcNoSwitch(t) ==
    /\ pc[t] = "count"
    /\ LET pid == heap[frame[t].processes[frame[t].i]].pid
       IN /\ ~Switched(frame[t].last_pid, pid)
          /\ frame' = [frame EXCEPT ![t] = NextProcess(@, pid)]
    /\ pc' = [pc EXCEPT ![t] = "loop"]
    /\ UNCHANGED <<heap, callerList, dicts, sched, results>>

\* self.context_switches += 1: the load
ConcLoadCounter(t) ==
    /\ pc[t] = "count"
    /\ Switched(frame[t].last_pid, heap[frame[t].processes[frame[t].i]].pid)
    /\ frame' = [frame EXCEPT ![t].loaded = sched.fcfs.context_switches]
    /\ pc' = [pc EXCEPT ![t] = "store"]
    /\ UNCHANGED <<heap, callerList, dicts, sched, results>>

\* self.context_switches += 1: the store
ConcStoreCounter(t) ==
    /\ pc[t] = "store"
    /\ sched' = [sched EXCEPT !.fcfs.context_switches = frame[t].loaded + 1]
    /\ frame' = [frame EXCEPT ![t] =
          NextProcess(@, heap[frame[t].processes[frame[t].i]].pid)]
    /\ pc' = [pc EXCEPT ![t] = "loop"]
    /\ UNCHANGED <<heap, callerList, dicts, results>>

\* metrics = self.calculate_metrics(processes); process_stats = ...
ConcMetrics(t) ==
    /\ pc[t] = "loop"
    /\ frame[t].i > Len(frame[t].processes)
    /\ LET ps == [i \in DOMAIN frame[t].processes |->
                    heap[frame[t].processes[i]]]
       IN frame' = [frame EXCEPT
             ![t].metrics = calculate_metrics(ps, sched.fcfs.context_switches),
             ![t].process_stats = get_process_stats(ps)]
    /\ pc' = [pc EXCEPT ![t] = "return"]
    /\ UNCHANGED <<heap, callerList, dicts, sched, results>>

\* return {'execution': self.execution_timeline, ...}
ConcReturn(t) ==
    /\ pc[t] = "return"
    /\ results' = Append(results,
          [alg |-> "fcfs", quantum |-> 0,
           processes |-> [i \in DOMAIN callerList |-> heap[callerList[i]]],
           execution |-> sched.fcfs.execution_timeline,
           metrics |-> frame[t].metrics,
           process_stats |-> frame[t].process_stats,
           overlapped |-> frame[t].overlapped])
    /\ pc' = [pc EXCEPT ![t] = "idle"]
    /\ UNCHANGED <<heap, callerList, dicts, sched, frame>>

ConcNext ==
    \E t \in Threads :
        \/ ConcEnter(t)
        \/ ConcResetCounter(t)
        \/ ConcResetTimeline(t)
        \/ ConcEnsureEntry(t)
        \/ ConcAppend(t)
        \/ ConcKeyError(t)
        \/ ConcNoSwitch(t)
        \/ ConcLoadCounter(t)
        \/ ConcStoreCounter(t)
        \/ ConcMetrics(t)
        \/ ConcReturn(t)

ConcSpec == ConcInit /\ [][ConcNext]_vars

(***************************************************************************)
(* Vocabulary of the properties.                                           *)
(***************************************************************************)
CallerProcs == [i \in DOMAIN callerList |-> heap[callerList[i]]]

ValidProcess(p) == p.arrival_time >= 0 /\ p.burst_time > 0

ValidInput == \A i \in DOMAIN callerList : ValidProcess(heap[callerList[i]])

UniquePids ==
    \A i, j \in DOMAIN callerList :
        i # j => heap[callerList[i]].pid # heap[callerList[j]].pid

Loops == {"fcfs_loop", "sjf_loop", "rr_loop", "priority_loop"}

\* the call in progress is one the data model allows
ValidCall == ValidInput /\ (frame.alg = "rr" => frame.quantum > 0)

\* a step that is one iteration of a scheduling loop
Iteration == pc \in Loops /\ pc' = pc /\ frame' # frame

TimelineOf(r) == dicts[r.execution]

Duration(interval) == interval[2] - interval[1]

TotalDuration(intervals) ==
    SumSeq([i \in DOMAIN intervals |-> Duration(intervals[i])])

\* every interval of a timeline, as <<entry, position, start, end>>
IntervalsOf(d) ==
    UNION {{<<e, k, d[e].intervals[k][1], d[e].intervals[k][2]>> :
                k \in DOMAIN d[e].intervals} : e \in DOMAIN d}

Disjoint(x, y) == x[4] <= y[3] \/ y[4] <= x[3]

NoOverlap(d) ==
    /\ \A x, y \in IntervalsOf(d) :
          (x[1] # y[1] \/ x[2] # y[2]) => Disjoint(x, y)
    /\ \A e \in DOMAIN d : \A k \in 1..(Len(d[e].intervals) - 1) :
          d[e].intervals[k][2] <= d[e].intervals[k + 1][1]

\* the working copy has been given its whole burst after it arrived
Finished(p) == p.completion_time >= p.arrival_time + p.burst_time

\* work the loop of the call in progress still has to do
RemainingWork(h, f) ==
    CASE f.alg = "rr" ->
            SumSeq([i \in DOMAIN f.processes |-> h[f.processes[i]].remaining_time])
      [] f.alg = "fcfs" ->
            SumSeq([i \in DOMAIN f.processes |->
                       IF i >= f.i THEN h[f.processes[i]].burst_time ELSE 0])
      [] OTHER ->
            SumSeq([i \in DOMAIN f.processes |->
                       IF f.processes[i] \in Range(f.completed) THEN 0
                       ELSE h[f.processes[i]].burst_time])

LoopExit ==
    \/ pc = "fcfs_loop" /\ frame.i > Len(frame.processes)
    \/ pc \in {"sjf_loop", "priority_loop"}
          /\ Len(frame.completed) >= Len(frame.processes)
    \/ pc = "rr_loop" /\ frame.n_completed >= Len(frame.processes)

(***************************************************************************)
(* C1.  In every returned result, of every algorithm and for every input,  *)
(* each process has turnaround = completion - arrival and                  *)
(* wait = turnaround - burst, and every input process is in the result.    *)
(***************************************************************************)
C1_TurnaroundAndWait ==
    \A k \in DOMAIN results :
        /\ Len(results[k].process_stats) = Len(callerList)
        /\ \A i \in DOMAIN results[k].process_stats :
              LET st == results[k].process_stats[i]
              IN /\ st.Turnaround = st.Completion - st.Arrival
                 /\ st.WaitTime = st.Turnaround - st.Burst

C1_Witness ==
    /\ {results[k].alg : k \in DOMAIN results} = {"fcfs", "rr"}
    /\ \E k \in DOMAIN results : \E i \in DOMAIN results[k].process_stats :
          /\ results[k].process_stats[i].WaitTime > 0
          /\ results[k].process_stats[i].Arrival > 0

(***************************************************************************)
(* C2.  With unique pids, in every returned result each input process has  *)
(* an entry in the timeline and the durations of its intervals add up to   *)
(* its burst_time.                                                         *)
(***************************************************************************)
C2_IntervalsSumToBurst ==
    UniquePids =>
        \A k \in DOMAIN results : \A i \in DOMAIN callerList :
            LET d == TimelineOf(results[k])
                p == heap[callerList[i]]
            IN /\ HasKey(d, p.pid)
               /\ TotalDuration(d[KeyIndex(d, p.pid)].intervals) = p.burst_time

C2_Witness ==
    /\ UniquePids
    /\ \E k \in DOMAIN results :
          /\ results[k].alg = "rr"
          /\ Len(callerList) >= 2
          /\ \E e \in DOMAIN TimelineOf(results[k]) :
                Len(TimelineOf(results[k])[e].intervals) >= 2

(***************************************************************************)
(* C3.  In every returned timeline no two recorded intervals overlap, and  *)
(* each pid's intervals are in increasing time order.                      *)
(***************************************************************************)
C3_NoOverlap == \A k \in DOMAIN results : NoOverlap(TimelineOf(results[k]))

\* the same on the inputs the data model allows
C3_NoOverlapOnValidInput ==
    ValidInput => \A k \in DOMAIN results : NoOverlap(TimelineOf(results[k]))

(***************************************************************************)
(* C4.  No step of a schedule call changes the caller's list or any field  *)
(* of the caller's Process objects, which stay as constructed; two calls   *)
(* of the same algorithm (and quantum) in one session return equal         *)
(* results.                                                                *)
(***************************************************************************)
Pristine(p) ==
    /\ p.remaining_time = p.burst_time
    /\ p.wait_time = 0
    /\ p.turnaround_time = 0
    /\ p.completion_time = 0

SameResult(r1, r2) ==
    /\ r1.metrics = r2.metrics
    /\ r1.process_stats = r2.process_stats
    /\ TimelineOf(r1) = TimelineOf(r2)

C4_CallerNeverMutated ==
    /\ [][(pc # "idle" \/ pc' # "idle") =>
             (callerList' = callerList /\ CallerProcs' = CallerProcs)]_vars
    /\ [](\A i \in DOMAIN callerList : Pristine(heap[callerList[i]]))
    /\ [](\A j, k \in DOMAIN results :
             (results[j].alg = results[k].alg
                /\ results[j].quantum = results[k].quantum)
             => SameResult(results[j], results[k]))

C4_Witness ==
    /\ Len(results) = 2
    /\ results[1].alg = "rr" /\ results[2].alg = "sjf"
    /\ Len(callerList) = 2
    /\ \E i \in DOMAIN results[1].process_stats :
          results[1].process_stats[i].WaitTime > 0

(***************************************************************************)
(* C5.  On processes with arrival_time >= 0 and burst_time > 0 (and a      *)
(* quantum > 0 for Round Robin) every loop iteration strictly advances     *)
(* current_time or strictly reduces the remaining work, the loop exits     *)
(* only with every process completed, and every call returns.              *)
(***************************************************************************)
\* the loop is not at an iteration that would change nothing
CanProgress ==
    /\ pc = "rr_loop" =>
          frame.ready_queue # <<>> \/ frame.process_idx <= Len(frame.processes)
    /\ pc \in {"sjf_loop", "priority_loop"} =>
          \/ Available(heap, frame) # <<>>
          \/ /\ Pending(heap, frame) # <<>>
             /\ NextArrival(heap, frame) > frame.current_time

C5_Terminates ==
    /\ []((pc \in Loops /\ ~LoopExit /\ ValidCall) => CanProgress)
    /\ [][(Iteration /\ ValidCall) =>
             \/ frame'.current_time > frame.current_time
             \/ RemainingWork(heap', frame') < RemainingWork(heap, frame)]_vars
    /\ []((LoopExit /\ ValidCall) =>
             \A a \in Range(frame.processes) : Finished(heap[a]))
    /\ ((pc \in Loops /\ ValidCall) ~> (pc = "idle"))

C5_Witness ==
    /\ pc = "idle"
    /\ ValidInput
    /\ Len(callerList) = 3
    /\ \E k \in DOMAIN results :
          /\ results[k].alg = "rr"
          /\ results[k].quantum = 1
          /\ results[k].metrics.total_time > 4

(***************************************************************************)
(* C6.  A Round Robin call with quantum <= 0 is rejected before the loop:  *)
(* it records no interval and writes no process field.                     *)
(***************************************************************************)
C6_BadQuantumRejected ==
    (frame.alg = "rr" /\ frame.quantum <= 0) =>
        /\ NumIntervals(dicts[sched.rr.execution_timeline]) = 0
        /\ \A a \in Range(frame.processes) : Pristine(heap[a])

(***************************************************************************)
(* C7.  A Process with burst_time <= 0 or arrival_time < 0 is rejected at  *)
(* construction, so no schedule call works on one.                         *)
(***************************************************************************)
C7_InvalidProcessRejected ==
    pc \in Loops =>
        \A a \in Range(frame.processes) :
            heap[a].burst_time > 0 /\ heap[a].arrival_time >= 0

(***************************************************************************)
(* C8.  Scheduling an empty list does not fail and returns an empty        *)
(* timeline, empty process_stats, and metrics with all five keys present   *)
(* and zero.                                                               *)
(***************************************************************************)
IsZero(v) == v = 0 \/ v = <<0, 1>>

C8_EmptyInputZeroMetrics ==
    /\ callerList = <<>> => pc # "raised"
    /\ \A k \in DOMAIN results :
          callerList = <<>> =>
              /\ TimelineOf(results[k]) = <<>>
              /\ results[k].process_stats = <<>>
              /\ results[k].metrics.keys = MetricKeys
              /\ IsZero(results[k].metrics.total_time)
              /\ IsZero(results[k].metrics.context_switches)

\* what does hold of the empty list: nothing fails, everything is empty
C8_EmptyInputEmptyResult ==
    /\ callerList = <<>> => pc # "raised"
    /\ \A k \in DOMAIN results :
          callerList = <<>> =>
              /\ TimelineOf(results[k]) = <<>>
              /\ results[k].process_stats = <<>>
              /\ results[k].metrics.keys = {}

(***************************************************************************)
(* C9.  In Round Robin the head of the ready queue is the process that     *)
(* runs; when its slice ends at time t with work left, it goes to the back *)
(* of the queue behind every not-yet-queued process with                   *)
(* arrival_time <= t, and the processes already queued keep their order    *)
(* ahead of both.  P1(0,5), P2(0,5) with quantum 2 run as P1[0,2),         *)
(* P2[2,4), P1[4,6), P2[6,8), P1[8,9), P2[9,10).                           *)
(***************************************************************************)
IsPrefix(s, t) == Len(s) <= Len(t) /\ SubSeq(t, 1, Len(s)) = s

Slice ==
    /\ pc = "rr_loop" /\ pc' = "rr_loop"
    /\ frame.ready_queue # <<>>
    /\ dicts' # dicts

SliceOrder ==
    LET ran == Head(frame.ready_queue)
        t == frame'.current_time
        q2 == frame'.ready_queue
        tl == sched.rr.execution_timeline
        late == {i \in DOMAIN frame.processes :
                    /\ i >= frame.process_idx
                    /\ heap[frame.processes[i]].arrival_time <= t}
    IN /\ dicts'[tl] = RecordInterval(dicts[tl], heap[ran].pid,
                                      frame.current_time, t)
       /\ IsPrefix(Tail(frame.ready_queue), q2)
       /\ \A i \in late : \E j \in DOMAIN q2 :
             /\ q2[j] = frame.processes[i]
             /\ j > Len(frame.ready_queue) - 1
             /\ heap'[ran].remaining_time > 0 => j < Len(q2)
       /\ \A i, j \in late : i < j =>
             \E x, y \in DOMAIN q2 :
                x < y /\ q2[x] = frame.processes[i] /\ q2[y] = frame.processes[j]
       /\ Len(q2) = Len(frame.ready_queue) - 1 + Cardinality(late)
                      + (IF heap'[ran].remaining_time > 0 THEN 1 ELSE 0)
       /\ heap'[ran].remaining_time > 0 => q2[Len(q2)] = ran

FairnessSampleTimeline ==
    << [pid |-> 1, intervals |-> << <<0, 2>>, <<4, 6>>, <<8, 9>> >>],
       [pid |-> 2, intervals |-> << <<2, 4>>, <<6, 8>>, <<9, 10>> >>] >>

C9_RoundRobinQueueOrder ==
    /\ [][Slice => SliceOrder]_vars
    /\ [](\A k \in DOMAIN results :
             (CallerProcs = FairnessSample /\ results[k].alg = "rr"
                 /\ results[k].quantum = 2)
             => /\ TimelineOf(results[k]) = FairnessSampleTimeline
                /\ results[k].process_stats[1].Completion = 9
                /\ results[k].process_stats[2].Completion = 10)

\* a slice ended with work left while another process arrived during it
C9_Witness ==
    /\ pc = "rr_loop"
    /\ Len(frame.ready_queue) >= 2
    /\ frame.last_pid = <<heap[frame.ready_queue[Len(frame.ready_queue)]].pid>>
    /\ heap[frame.ready_queue[Len(frame.ready_queue)]].remaining_time
          < heap[frame.ready_queue[Len(frame.ready_queue)]].burst_time
    /\ \E j \in 1..(Len(frame.ready_queue) - 1) :
          /\ heap[frame.ready_queue[j]].arrival_time > 0
          /\ Pristine(heap[frame.ready_queue[j]])
          /\ heap[frame.ready_queue[j]].arrival_time <= frame.current_time

C9_SampleWitness ==
    \E k \in DOMAIN results :
        /\ CallerProcs = FairnessSample
        /\ results[k].alg = "rr"
        /\ results[k].quantum = 2

(***************************************************************************)
(* C10.  Every SJF dispatch runs to completion, in one interval, the       *)
(* process of minimum burst_time among those not yet completed that have   *)
(* arrived; among equal bursts the earliest arrival, among equal bursts    *)
(* and arrivals the first in the caller's list.                            *)
(***************************************************************************)
\* position in the caller's list of the object a working copy was made of
InputIndex(a) == a - Len(callerList)

Before(h, a, b) ==
    \/ h[a].burst_time < h[b].burst_time
    \/ /\ h[a].burst_time = h[b].burst_time
       /\ h[a].arrival_time < h[b].arrival_time
    \/ /\ h[a].burst_time = h[b].burst_time
       /\ h[a].arrival_time = h[b].arrival_time
       /\ InputIndex(a) <= InputIndex(b)

SJFDispatched ==
    /\ pc = "sjf_loop" /\ pc' = "sjf_loop"
    /\ Len(frame'.completed) = Len(frame.completed) + 1

SJFChoice ==
    LET c == frame'.completed[Len(frame'.completed)]
        tl == sched.sjf.execution_timeline
    IN /\ c \in Range(frame.processes) \ Range(frame.completed)
       /\ heap[c].arrival_time <= frame.current_time
       /\ \A a \in Range(frame.processes) \ Range(frame.completed) :
             heap[a].arrival_time <= frame.current_time => Before(heap, c, a)
       /\ dicts'[tl] = RecordInterval(dicts[tl], heap[c].pid, frame.current_time,
                                      frame.current_time + heap[c].burst_time)
       /\ frame'.current_time = frame.current_time + heap[c].burst_time

C10_SJFSelection == [][SJFDispatched => SJFChoice]_vars

\* the same on the inputs the data model allows
C10_SJFSelectionOnValidInput ==
    [][(SJFDispatched /\ ValidInput) => SJFChoice]_vars

(***************************************************************************)
(* C11.  Every Priority dispatch runs to completion, in one interval, the  *)
(* process of lowest numeric priority among those not yet completed that   *)
(* have arrived; among equal priorities the earliest arrival, among equal  *)
(* priorities and arrivals the first in the caller's list.                 *)
(***************************************************************************)
PriorityBefore(h, a, b) ==
    \/ h[a].priority < h[b].priority
    \/ /\ h[a].priority = h[b].priority
       /\ h[a].arrival_time < h[b].arrival_time
    \/ /\ h[a].priority = h[b].priority
       /\ h[a].arrival_time = h[b].arrival_time
       /\ InputIndex(a) <= InputIndex(b)

PriorityDispatched ==
    /\ pc = "priority_loop" /\ pc' = "priority_loop"
    /\ Len(frame'.completed) = Len(frame.completed) + 1

PriorityChoice ==
    LET c == frame'.completed[Len(frame'.completed)]
        tl == sched.priority.execution_timeline
    IN /\ c \in Range(frame.processes) \ Range(frame.completed)
       /\ heap[c].arrival_time <= frame.current_time
       /\ \A a \in Range(frame.processes) \ Range(frame.completed) :
             heap[a].arrival_time <= frame.current_time
                => PriorityBefore(heap, c, a)
       /\ dicts'[tl] = RecordInterval(dicts[tl], heap[c].pid, frame.current_time,
                                      frame.current_time + heap[c].burst_time)
       /\ frame'.current_time = frame.current_time + heap[c].burst_time
       /\ heap'[c].completion_time = frame'.current_time

C11_PrioritySelection == [][PriorityDispatched => PriorityChoice]_vars

\* the same on the inputs the data model allows
C11_PrioritySelectionOnValidInput ==
    [][(PriorityDispatched /\ ValidInput) => PriorityChoice]_vars

\* a dispatch chose among several arrived processes, passing over an earlier
\* arrival of higher numeric priority
C11_ValidWitness ==
    /\ pc = "priority_loop"
    /\ ValidInput
    /\ Len(frame.completed) = 2
    /\ Len(frame.processes) = 3
    /\ heap[frame.completed[2]].priority < heap[frame.processes[2]].priority
    /\ frame.completed[2] = frame.processes[3]
    /\ heap[frame.processes[3]].arrival_time
          <= heap[frame.completed[1]].completion_time

(***************************************************************************)
(* C12.  FCFS runs the processes in ascending arrival_time order, equal    *)
(* arrivals in the caller's order, each as one interval that starts at     *)
(* max(end of the previous interval, its arrival_time), the clock starting *)
(* at 0.  P1(0,8), P2(1,4), P3(2,2), P4(3,1) complete at 8, 12, 14, 15     *)
(* after waiting 0, 7, 10, 11.                                             *)
(***************************************************************************)
\* the working list is the caller's list in arrival order, ties in input order
InArrivalOrder(h, processes) ==
    /\ Len(processes) = Len(callerList)
    /\ {InputIndex(processes[i]) : i \in DOMAIN processes} = DOMAIN callerList
    /\ \A i \in DOMAIN processes :
          h[processes[i]].arrival_time
              = h[callerList[InputIndex(processes[i])]].arrival_time
    /\ \A i, j \in DOMAIN processes :
          i < j =>
             \/ h[processes[i]].arrival_time < h[processes[j]].arrival_time
             \/ /\ h[processes[i]].arrival_time = h[processes[j]].arrival_time
                /\ InputIndex(processes[i]) < InputIndex(processes[j])

MaxOfTwo(x, y) == IF x >= y THEN x ELSE y

FCFSRan == pc = "fcfs_loop" /\ pc' = "fcfs_loop" /\ frame' # frame

FCFSOneInterval ==
    LET a == frame.processes[frame.i]
        tl == sched.fcfs.execution_timeline
        previous_end ==
            IF frame.i = 1 THEN 0
            ELSE heap[frame.processes[frame.i - 1]].completion_time
        start == MaxOfTwo(previous_end, heap[a].arrival_time)
    IN /\ frame'.i = frame.i + 1
       /\ dicts'[tl] = RecordInterval(dicts[tl], heap[a].pid, start,
                                      start + heap[a].burst_time)
       /\ heap'[a].completion_time = start + heap[a].burst_time
       /\ heap'[a].wait_time = start - heap[a].arrival_time
       /\ NumIntervals(dicts'[tl]) = frame.i

C12_FCFSOrder ==
    /\ [](pc = "fcfs_loop" => InArrivalOrder(heap, frame.processes))
    /\ [][FCFSRan => FCFSOneInterval]_vars
    /\ [](\A k \in DOMAIN results :
             (CallerProcs = SampleProcesses /\ results[k].alg = "fcfs")
             => /\ [i \in 1..4 |-> results[k].process_stats[i].Completion]
                      = <<8, 12, 14, 15>>
                /\ [i \in 1..4 |-> results[k].process_stats[i].WaitTime]
                      = <<0, 7, 10, 11>>
                /\ Keys(TimelineOf(results[k])) = <<1, 2, 3, 4>>)

\* the list was reordered, two equal arrivals kept the caller's order, and
\* the last process had to wait for the clock
C12_Witness ==
    /\ pc = "fcfs_loop"
    /\ ValidInput
    /\ frame.i = 4
    /\ Len(frame.processes) = 3
    /\ InputIndex(frame.processes[1]) = 2
    /\ InputIndex(frame.processes[2]) = 3
    /\ heap[frame.processes[1]].arrival_time = heap[frame.processes[2]].arrival_time
    /\ heap[frame.processes[3]].wait_time > 0
    /\ heap[frame.processes[3]].arrival_time
          > heap[frame.processes[2]].arrival_time

C12_SampleWitness ==
    \E k \in DOMAIN results :
        CallerProcs = SampleProcesses /\ results[k].alg = "fcfs"

(***************************************************************************)
(* C13.  For a non-empty process set the reported total_time is            *)
(* max(completion_time) - min(arrival_time), cpu_utilization is            *)
(* 100 * sum(burst_time) / total_time when total_time > 0 and 0 otherwise, *)
(* and avg_wait_time and avg_turnaround_time times the process count are   *)
(* the sums of wait_time and turnaround_time.                              *)
(***************************************************************************)
\* the quotient q is num / den
QuotientIs(q, num, den) == q[2] # 0 /\ den # 0 /\ q[1] * den = num * q[2]

StatsSum(r, field) ==
    SumSeq([i \in DOMAIN r.process_stats |-> r.process_stats[i][field]])

FirstArrival(r) ==
    MinOf({r.process_stats[i].Arrival : i \in DOMAIN r.process_stats})

LastCompletion(r) ==
    MaxOf({r.process_stats[i].Completion : i \in DOMAIN r.process_stats})

MetricsFormulae(r) ==
    LET n == Len(r.process_stats)
        m == r.metrics
    IN /\ m.keys = MetricKeys
       /\ m.total_time = LastCompletion(r) - FirstArrival(r)
       /\ IF m.total_time > 0
          THEN QuotientIs(m.cpu_utilization, 100 * StatsSum(r, "Burst"),
                          m.total_time)
          ELSE IsZero(m.cpu_utilization)
       /\ QuotientIs(m.avg_wait_time, StatsSum(r, "WaitTime"), n)
       /\ QuotientIs(m.avg_turnaround_time, StatsSum(r, "Turnaround"), n)

C13_MetricsFormulae ==
    \A k \in DOMAIN results :
        results[k].process_stats # <<>> => MetricsFormulae(results[k])

\* the same on the inputs the data model allows
C13_MetricsFormulaeOnValidInput ==
    ValidInput =>
        \A k \in DOMAIN results :
            results[k].process_stats # <<>> => MetricsFormulae(results[k])

\* a run of several processes that start late, where no quotient is whole
C13_ValidWitness ==
    /\ ValidInput
    /\ \E k \in DOMAIN results :
          /\ Len(results[k].process_stats) = 3
          /\ results[k].metrics.total_time \in {4, 5}
          /\ FirstArrival(results[k]) > 0
          /\ StatsSum(results[k], "WaitTime") \in {1, 2}

(***************************************************************************)
(* C14.  If the intervals of a returned timeline cover the whole span from *)
(* the earliest arrival_time to the last completion_time, then             *)
(* sum(burst_time) = total_time and cpu_utilization is exactly 100; in     *)
(* every run cpu_utilization is at most 100.                               *)
(***************************************************************************)
Covered(d, t) == \E x \in IntervalsOf(d) : x[3] <= t /\ t < x[4]

NeverIdle(r) ==
    /\ LastCompletion(r) > FirstArrival(r)
    /\ \A t \in FirstArrival(r)..(LastCompletion(r) - 1) :
          Covered(TimelineOf(r), t)

FullUtilization(r) ==
    LET u == r.metrics.cpu_utilization
    IN /\ u[2] > 0 /\ u[1] <= 100 * u[2]
       /\ NeverIdle(r) =>
             /\ StatsSum(r, "Burst") = r.metrics.total_time
             /\ u[1] = 100 * u[2]

C14_FullUtilization ==
    \A k \in DOMAIN results :
        results[k].process_stats # <<>> => FullUtilization(results[k])

\* the same on the inputs the data model allows
C14_FullUtilizationOnValidInput ==
    ValidInput =>
        \A k \in DOMAIN results :
            results[k].process_stats # <<>> => FullUtilization(results[k])

\* a Round Robin run and another run, both without idle time, on processes
\* that arrive at different times
C14_ValidWitness ==
    /\ ValidInput
    /\ Len(results) = 2
    /\ results[1].alg = "rr" /\ results[2].alg # "rr"
    /\ Len(callerList) = 2
    /\ \A k \in DOMAIN results : NeverIdle(results[k])
    /\ FirstArrival(results[1]) > 0
    /\ \E i \in DOMAIN results[1].process_stats :
          results[1].process_stats[i].Arrival > FirstArrival(results[1])

(***************************************************************************)
(* C15.  Every schedule call starts with an empty execution timeline and a *)
(* context-switch counter of 0 on its instance, and a call on an instance  *)
(* that earlier calls with other inputs have used returns the same         *)
(* timeline, metrics and process_stats as a first call with that input.    *)
(***************************************************************************)
Entered == pc = "idle" /\ pc' \in Loops

FieldsReset ==
    /\ sched'[frame'.alg].context_switches = 0
    /\ dicts'[sched'[frame'.alg].execution_timeline] = <<>>

SameCall(r1, r2) ==
    /\ r1.alg = r2.alg
    /\ r1.quantum = r2.quantum
    /\ r1.processes = r2.processes

C15_ResetOnEntry ==
    /\ [][Entered => FieldsReset]_vars
    /\ [](\A j, k \in DOMAIN results :
             SameCall(results[j], results[k])
                => SameResult(results[j], results[k]))

\* the first call of the session and the third had the same input, on an
\* instance that ran a call with more processes and more switches in between
C15_Witness ==
    /\ Len(results) = 3
    /\ SameCall(results[1], results[3])
    /\ results[2].alg = results[1].alg
    /\ Len(results[2].processes) > Len(results[1].processes)
    /\ results[1].processes # <<>>
    /\ results[2].metrics.context_switches
          > results[1].metrics.context_switches

\* the same after a call on the instance that raised part-way
C15_WitnessAfterRaise ==
    /\ Len(results) = 2
    /\ Len(dicts) = 4 + 3
    /\ SameCall(results[1], results[2])
    /\ results[1].alg = "sjf"
    /\ dicts[6] # <<>>
    /\ sched.sjf.execution_timeline = 7

(***************************************************************************)
(* C16.  With unique pids, the reported context_switches is the number of  *)
(* pairs of chronologically consecutive intervals of the returned timeline *)
(* whose pids differ (idle gaps do not matter, two slices in a row of one  *)
(* process do not count); for FCFS, SJF and Priority on n >= 1 processes   *)
(* it is n - 1.                                                            *)
(***************************************************************************)
\* x is earlier than y: by start, then by end, then by place in the timeline
Earlier(x, y) ==
    \/ x[3] < y[3]
    \/ x[3] = y[3] /\ x[4] < y[4]
    \/ x[3] = y[3] /\ x[4] = y[4] /\ x[1] < y[1]
    \/ x[3] = y[3] /\ x[4] = y[4] /\ x[1] = y[1] /\ x[2] < y[2]

Consecutive(d, x, y) ==
    /\ Earlier(x, y)
    /\ ~\E z \in IntervalsOf(d) : Earlier(x, z) /\ Earlier(z, y)

PidChanges(d) ==
    Cardinality({xy \in IntervalsOf(d) \X IntervalsOf(d) :
                    /\ Consecutive(d, xy[1], xy[2])
                    /\ d[xy[1][1]].pid # d[xy[2][1]].pid})

SwitchesCounted(r) ==
    /\ r.metrics.context_switches = PidChanges(TimelineOf(r))
    /\ r.alg # "rr" => r.metrics.context_switches = Len(r.processes) - 1

C16_ContextSwitches ==
    UniquePids =>
        \A k \in DOMAIN results :
            results[k].processes # <<>> => SwitchesCounted(results[k])

\* the same on the inputs the data model allows
C16_ContextSwitchesOnValidInput ==
    (UniquePids /\ ValidInput) =>
        \A k \in DOMAIN results :
            results[k].processes # <<>> => SwitchesCounted(results[k])

\* a Round Robin run where a process ran two slices in a row and the CPU
\* idled before another process, beside a run of another algorithm
C16_Witness ==
    /\ UniquePids /\ ValidInput
    /\ Len(results) = 2
    /\ results[1].alg = "rr" /\ results[2].alg # "rr"
    /\ Len(callerList) = 2
    /\ ~NeverIdle(results[1])
    /\ NumIntervals(TimelineOf(results[1])) = 3
    /\ results[1].metrics.context_switches = 1

(***************************************************************************)
(* C17.  In every returned timeline, in chronological order, a gap between *)
(* the end of one interval and the start of the next, or between time 0    *)
(* and the first interval, exists only if at its start every process that  *)
(* has arrived has completed, and it ends at the smallest arrival_time of  *)
(* the processes not yet completed.                                        *)
(***************************************************************************)
\* the gaps of a timeline, as <<from, to>>
Gaps(d) ==
    {<<xy[1][4], xy[2][3]>> :
        xy \in {p \in IntervalsOf(d) \X IntervalsOf(d) :
                   Consecutive(d, p[1], p[2]) /\ p[1][4] < p[2][3]}}

LeadingGaps(d) ==
    {<<0, x[3]>> : x \in {y \in IntervalsOf(d) :
        y[3] > 0 /\ \A z \in IntervalsOf(d) : ~Earlier(z, y)}}

GapIsIdle(r, from, to) ==
    LET st == r.process_stats
        waiting == {i \in DOMAIN st : st[i].Completion > from}
    IN /\ \A i \in DOMAIN st : st[i].Arrival <= from => st[i].Completion <= from
       /\ waiting # {}
       /\ to = MinOf({st[i].Arrival : i \in waiting})

WorkConserving(r) ==
    \A g \in Gaps(TimelineOf(r)) \cup LeadingGaps(TimelineOf(r)) :
        GapIsIdle(r, g[1], g[2])

C17_WorkConserving == \A k \in DOMAIN results : WorkConserving(results[k])

\* the same on the inputs the data model allows
C17_WorkConservingOnValidInput ==
    ValidInput => \A k \in DOMAIN results : WorkConserving(results[k])

\* a Round Robin run and a run of another algorithm, each with a gap between
\* two intervals; and a run with a gap before the first interval
C17_Witness ==
    /\ ValidInput
    /\ Len(results) = 2
    /\ results[1].alg = "rr" /\ results[2].alg \in {"sjf", "priority"}
    /\ \A k \in DOMAIN results : Gaps(TimelineOf(results[k])) # {}

C17_LeadingGapWitness ==
    /\ ValidInput
    /\ \E k \in DOMAIN results :
          /\ LeadingGaps(TimelineOf(results[k])) # {}
          /\ Len(results[k].processes) = 3

(***************************************************************************)
(* C18.  On valid input, in FCFS, SJF and Priority the remaining_time of a *)
(* working copy is burst_time until the process completes and 0 from then  *)
(* on; in all four algorithms remaining_time is never negative and is 0    *)
(* for every process when the loop has ended.                              *)
(***************************************************************************)
\* the loop of the call in progress has completed the working copy a
Completed(a) ==
    CASE frame.alg = "fcfs" ->
            \E i \in 1..(frame.i - 1) : frame.processes[i] = a
      [] frame.alg = "rr" ->
            heap[a].completion_time > 0
      [] OTHER -> a \in Range(frame.completed)

RemainingTimeTracksCompletion ==
    \A a \in Range(frame.processes) :
        /\ heap[a].remaining_time >= 0
        /\ frame.alg # "rr" =>
              heap[a].remaining_time =
                  IF Completed(a) THEN 0 ELSE heap[a].burst_time
        /\ LoopExit => heap[a].remaining_time = 0

C18_RemainingTime ==
    (pc \in Loops /\ ValidCall) => RemainingTimeTracksCompletion

\* what the code does: the non-preemptive loops never write remaining_time,
\* Round Robin counts it down to 0
C18_RemainingTimeAsCoded ==
    (pc \in Loops /\ ValidCall) =>
        \A a \in Range(frame.processes) :
            /\ heap[a].remaining_time >= 0
            /\ frame.alg # "rr" => heap[a].remaining_time = heap[a].burst_time
            /\ frame.alg = "rr" =>
                  /\ Completed(a) <=> heap[a].remaining_time = 0
                  /\ LoopExit => heap[a].remaining_time = 0

(***************************************************************************)
(* C19.  Two FCFS calls on one instance that run one after the other       *)
(* return what a call alone returns; when they overlap there is an         *)
(* interleaving in which a call returns another timeline or another        *)
(* context_switches.                                                       *)
(***************************************************************************)
\* results of calls during which no other call was in progress
Alone == {k \in DOMAIN results : ~results[k].overlapped}

Overlapped == {k \in DOMAIN results : results[k].overlapped}

C19_SequentialCallsAgree ==
    \A j, k \in Alone : SameResult(results[j], results[k])

\* all calls are over; the first ran alone on the new instance, and of the
\* two that overlapped one returned another counter, one another timeline
C19_Witness ==
    /\ \A t \in Threads : pc[t] = "idle"
    /\ Len(results) = 3
    /\ Alone = {1}
    /\ \E k \in Overlapped :
          results[k].metrics.context_switches
              # results[1].metrics.context_switches
    /\ \E k \in Overlapped : TimelineOf(results[k]) # TimelineOf(results[1])

\* three calls one after the other, by both threads
C19_SequentialWitness ==
    /\ Len(results) = 3
    /\ Alone = {1, 2, 3}
    /\ frame[1].calls > 0 /\ frame[2].calls > 0
    /\ results[1].metrics.context_switches = 2

(***************************************************************************)
(* C20.  On one valid input (and any quantum > 0) the four algorithms end  *)
(* at the same last completion time and report the same total_time and the *)
(* same cpu_utilization.                                                   *)
(***************************************************************************)
\* when the CPU has served the processes S of ps, taken by arrival, from t
RECURSIVE BusyUntil(_, _, _)
BusyUntil(ps, S, t) ==
    IF S = {} THEN t
    ELSE LET i == CHOOSE i \in S :
                     \A j \in S : ps[i].arrival_time <= ps[j].arrival_time
         IN BusyUntil(ps, S \ {i},
                      MaxOfTwo(t, ps[i].arrival_time) + ps[i].burst_time)

SameSpan(r1, r2) ==
    /\ LastCompletion(r1) = LastCompletion(r2)
    /\ r1.metrics.total_time = r2.metrics.total_time
    /\ r1.metrics.cpu_utilization = r2.metrics.cpu_utilization

C20_SameLastCompletion ==
    (ValidInput /\ callerList # <<>>) =>
        /\ \A j, k \in DOMAIN results : SameSpan(results[j], results[k])
        /\ \A k \in DOMAIN results :
              LastCompletion(results[k])
                  = BusyUntil(results[k].processes,
                              DOMAIN results[k].processes, 0)

\* Round Robin and SJF ran the same two processes in different orders, with
\* idle time before the first
C20_Witness ==
    /\ ValidInput
    /\ Len(callerList) = 2
    /\ Len(results) = 2
    /\ results[1].alg = "rr" /\ results[1].quantum = 1
    /\ results[2].alg = "sjf"
    /\ FirstArrival(results[1]) > 0
    /\ \A i \in 1..2 :
          results[1].process_stats[i].Completion
              # results[2].process_stats[i].Completion

\* the same span in a run of three processes with idle time in the middle
C20_ThreeProcessWitness ==
    /\ ValidInput
    /\ Len(callerList) = 3
    /\ \E k \in DOMAIN results :
          /\ results[k].alg = "priority"
          /\ Gaps(TimelineOf(results[k])) # {}
          /\ results[k].process_stats[2].Completion
                > results[k].process_stats[3].Completion

(***************************************************************************)
(* C21.  Round Robin with a quantum >= every burst_time returns what FCFS  *)
(* returns on the same input: the same timeline, the same process_stats    *)
(* and the same metrics, context_switches included.                        *)
(***************************************************************************)
QuantumCoversBursts(r) ==
    \A i \in DOMAIN r.processes : r.quantum >= r.processes[i].burst_time

SameOutcome(r1, r2) ==
    /\ TimelineOf(r1) = TimelineOf(r2)
    /\ r1.process_stats = r2.process_stats
    /\ r1.metrics = r2.metrics

OneSliceEach(d) == \A e \in DOMAIN d : Len(d[e].intervals) = 1

RoundRobinIsFCFS ==
    \A j, k \in DOMAIN results :
        (/\ results[j].alg = "fcfs"
         /\ results[k].alg = "rr"
         /\ results[j].processes = results[k].processes
         /\ QuantumCoversBursts(results[k]))
            => SameOutcome(results[j], results[k])

C21_LargeQuantumIsFCFS == RoundRobinIsFCFS

\* the input a result was computed from is one the data model allows
ValidArguments(r) == \A i \in DOMAIN r.processes : ValidProcess(r.processes[i])

DistinctPids(r) ==
    \A i, j \in DOMAIN r.processes :
        i # j => r.processes[i].pid # r.processes[j].pid

\* C21 on the inputs of the data model: there the timeline has one interval
\* per process as well
C21_LargeQuantumIsFCFSOnValidInput ==
    \A j, k \in DOMAIN results :
        (/\ results[j].alg = "fcfs"
         /\ results[k].alg = "rr"
         /\ results[j].processes = results[k].processes
         /\ ValidArguments(results[k])
         /\ QuantumCoversBursts(results[k]))
            => /\ SameOutcome(results[j], results[k])
               /\ DistinctPids(results[k]) =>
                     /\ OneSliceEach(TimelineOf(results[k]))
                     /\ Len(TimelineOf(results[k]))
                            = Len(results[k].processes)

\* FCFS and Round Robin ran two valid processes given out of arrival order,
\* the second waits, and the quantum is larger than one of the bursts
C21_ValidWitness ==
    /\ ValidInput
    /\ UniquePids
    /\ Len(results) = 2
    /\ results[1].alg = "fcfs"
    /\ results[2].alg = "rr"
    /\ QuantumCoversBursts(results[2])
    /\ \E i \in DOMAIN results[2].processes :
          results[2].quantum > results[2].processes[i].burst_time
    /\ Len(callerList) = 2
    /\ heap[callerList[1]].arrival_time > heap[callerList[2]].arrival_time
    /\ results[2].process_stats[2].WaitTime > 0
    /\ results[2].metrics.context_switches = 1

(***************************************************************************)
(* C22.  On valid input (arrival_time >= 0, burst_time > 0, quantum > 0)   *)
(* no algorithm runs a process before it arrives: every interval is        *)
(* recorded for a process at a start >= its arrival_time, and in every     *)
(* result wait_time >= 0 and completion_time >= arrival_time + burst_time. *)
(***************************************************************************)
\* a step of a loop that records an interval
Dispatched == Iteration /\ dicts' # dicts

\* the working copy that step runs
RanProcess ==
    CASE pc = "fcfs_loop" -> frame.processes[frame.i]
      [] pc = "rr_loop" -> Head(frame.ready_queue)
      [] OTHER -> frame'.completed[Len(frame'.completed)]

LastRecorded(d, pid) ==
    LET intervals == d[KeyIndex(d, pid)].intervals
    IN intervals[Len(intervals)]

StartsAfterArrival ==
    LET tl == sched[frame.alg].execution_timeline
        p == heap[RanProcess]
    IN /\ NumIntervals(dicts'[tl]) = NumIntervals(dicts[tl]) + 1
       /\ HasKey(dicts'[tl], p.pid)
       /\ LastRecorded(dicts'[tl], p.pid)[1] >= frame.current_time
       /\ LastRecorded(dicts'[tl], p.pid)[1] >= p.arrival_time

ArrivedBeforeRun(r) ==
    /\ \A i \in DOMAIN r.process_stats :
          /\ r.process_stats[i].WaitTime >= 0
          /\ r.process_stats[i].Completion
                >= r.process_stats[i].Arrival + r.process_stats[i].Burst
    /\ DistinctPids(r) =>
          \A x \in IntervalsOf(TimelineOf(r)) :
              \A i \in DOMAIN r.process_stats :
                  r.process_stats[i].PID = TimelineOf(r)[x[1]].pid
                      => x[3] >= r.process_stats[i].Arrival

C22_NoRunBeforeArrival ==
    /\ [][(Dispatched /\ ValidCall) => StartsAfterArrival]_vars
    /\ [](\A k \in DOMAIN results :
             (ValidArguments(results[k])
                  /\ (results[k].alg = "rr" => results[k].quantum > 0))
                 => ArrivedBeforeRun(results[k]))

\* Round Robin with quantum 1 returned: a process that arrived after time 0
\* waited and was given two slices, another started at its arrival
C22_Witness ==
    /\ ValidInput
    /\ UniquePids
    /\ \E k \in DOMAIN results :
          LET r == results[k]
              d == TimelineOf(r)
          IN /\ r.alg = "rr" /\ r.quantum = 1
             /\ \E i \in DOMAIN r.process_stats :
                   /\ r.process_stats[i].Arrival > 0
                   /\ r.process_stats[i].WaitTime > 0
                   /\ Len(d[KeyIndex(d, r.process_stats[i].PID)].intervals) = 2
             /\ \E i \in DOMAIN r.process_stats :
                   d[KeyIndex(d, r.process_stats[i].PID)].intervals[1][1]
                       = r.process_stats[i].Arrival

\* SJF returned after idle time before its first dispatch
C22_IdleWitness ==
    /\ ValidInput
    /\ \E k \in DOMAIN results :
          /\ results[k].alg = "sjf"
          /\ Len(results[k].process_stats) = 3
          /\ \A i \in 1..3 : results[k].process_stats[i].Arrival > 0
          /\ \E i \in 1..3 : results[k].process_stats[i].WaitTime > 0

(***************************************************************************)
(* C23.  In Round Robin, at the top of every iteration of the main loop,   *)
(* after the arrival cursor has run, the ready queue holds exactly the     *)
(* processes that have arrived and have remaining_time > 0, each once, and *)
(* the counter `completed` is the number of processes with                 *)
(* remaining_time = 0.                                                     *)
(***************************************************************************)
Ready(h, f) ==
    {a \in Range(f.processes) :
        h[a].arrival_time <= f.current_time /\ h[a].remaining_time > 0}

Done(h, f) == {a \in Range(f.processes) : h[a].remaining_time = 0}

ReadyQueueExact ==
    /\ Range(frame.ready_queue) = Ready(heap, frame)
    /\ Len(frame.ready_queue) = Cardinality(Ready(heap, frame))
    /\ frame.n_completed = Cardinality(Done(heap, frame))

C23_ReadyQueueInvariant == pc = "rr_loop" => ReadyQueueExact

\* C23 in the calls the data model allows
C23_ReadyQueueInvariantOnValidCall ==
    (pc = "rr_loop" /\ ValidCall) => ReadyQueueExact

\* one process has completed, one waits in the queue and the third has not
\* arrived
C23_ValidWitness ==
    /\ pc = "rr_loop"
    /\ ValidCall
    /\ Len(frame.processes) = 3
    /\ frame.n_completed = 1
    /\ Len(frame.ready_queue) = 1
    /\ frame.process_idx = 3
    /\ heap[frame.processes[3]].arrival_time > frame.current_time

\* a process re-queued behind one that arrived during its slice
C23_RequeueWitness ==
    /\ pc = "rr_loop"
    /\ ValidCall
    /\ Len(frame.ready_queue) = 2
    /\ heap[frame.ready_queue[1]].remaining_time
          = heap[frame.ready_queue[1]].burst_time
    /\ heap[frame.ready_queue[2]].remaining_time
          < heap[frame.ready_queue[2]].burst_time
    /\ heap[frame.ready_queue[1]].arrival_time = frame.current_time

(***************************************************************************)
(* C24.  Round Robin gives bounded waiting: between the moment a process   *)
(* is placed in the ready queue (on arrival or on re-queue) and its next   *)
(* dispatch every other process runs at most one slice, and the wait is at *)
(* most (n - 1) * quantum for n processes.  The waits are read from the    *)
(* timeline, of a call in progress and of a returned result.               *)
(***************************************************************************)
ArrivalOf(ps, pid) == ps[CHOOSE i \in DOMAIN ps : ps[i].pid = pid].arrival_time

\* when the cursor places a process that arrives at `arrival`: at time 0, at
\* the end of the slice it arrives in, or at its arrival when the CPU is idle
PlacedOnArrival(d, arrival) ==
    IF arrival <= 0 THEN 0
    ELSE IF \E x \in IntervalsOf(d) : x[3] < arrival /\ arrival <= x[4]
         THEN (CHOOSE x \in IntervalsOf(d) : x[3] < arrival /\ arrival <= x[4])[4]
         ELSE arrival

\* the k-th wait of the process of entry e: <<placed, dispatched>>
Wait(d, ps, e, k) ==
    << IF k = 1 THEN PlacedOnArrival(d, ArrivalOf(ps, d[e].pid))
       ELSE d[e].intervals[k - 1][2],
       d[e].intervals[k][1] >>

SlicesWithin(d, e, from, to) ==
    {m \in DOMAIN d[e].intervals :
        from <= d[e].intervals[m][1] /\ d[e].intervals[m][1] < to}

BoundedWaiting(d, ps, quantum) ==
    \A e \in DOMAIN d : \A k \in DOMAIN d[e].intervals :
        LET w == Wait(d, ps, e, k)
        IN /\ w[1] <= w[2]
           /\ w[2] - w[1] <= (Len(ps) - 1) * quantum
           /\ \A e2 \in DOMAIN d \ {e} :
                 Cardinality(SlicesWithin(d, e2, w[1], w[2])) <= 1

\* the wait so far of the process at position j of the ready queue leaves
\* room for the j - 1 slices ahead of it
PlacedAt(d, p) ==
    IF HasKey(d, p.pid)
    THEN LastRecorded(d, p.pid)[2]
    ELSE PlacedOnArrival(d, p.arrival_time)

QueueWaitsBounded ==
    \A j \in DOMAIN frame.ready_queue :
        frame.current_time
              - PlacedAt(dicts[sched.rr.execution_timeline],
                         heap[frame.ready_queue[j]])
            <= (Len(frame.processes) - j) * frame.quantum

\* the wait after a re-queue alone: from the end of one slice of a process
\* to the start of its next
RequeueWaitBounded(d, n, quantum) ==
    \A e \in DOMAIN d : \A k \in 1..(Len(d[e].intervals) - 1) :
        d[e].intervals[k + 1][1] - d[e].intervals[k][2] <= (n - 1) * quantum

WorkingProcs == [i \in DOMAIN frame.processes |-> heap[frame.processes[i]]]

C24_BoundedWaiting ==
    UniquePids =>
        /\ pc = "rr_loop" =>
              RequeueWaitBounded(dicts[sched.rr.execution_timeline],
                                 Len(frame.processes), frame.quantum)
        /\ \A k \in DOMAIN results :
              results[k].alg = "rr" =>
                  RequeueWaitBounded(TimelineOf(results[k]),
                                     Len(results[k].processes),
                                     results[k].quantum)

\* C24 in the calls the data model allows
C24_BoundedWaitingOnValidCall ==
    (UniquePids /\ ValidInput) =>
        /\ (pc = "rr_loop" /\ frame.quantum > 0) =>
              /\ BoundedWaiting(dicts[sched.rr.execution_timeline],
                                WorkingProcs, frame.quantum)
              /\ QueueWaitsBounded
        /\ \A k \in DOMAIN results :
              (results[k].alg = "rr" /\ results[k].quantum > 0) =>
                  BoundedWaiting(TimelineOf(results[k]), results[k].processes,
                                 results[k].quantum)

\* three processes with quantum 1: one waited the full (n - 1) * quantum
\* after a re-queue, behind a process that arrived during its slice
C24_ValidWitness ==
    /\ UniquePids /\ ValidInput
    /\ \E k \in DOMAIN results :
          LET r == results[k]
              d == TimelineOf(r)
          IN /\ r.alg = "rr" /\ r.quantum = 1
             /\ Len(r.processes) = 3
             /\ \E e \in DOMAIN d :
                   /\ Len(d[e].intervals) = 2
                   /\ d[e].intervals[2][1] - d[e].intervals[1][2] = 2
                   /\ \E e2 \in DOMAIN d \ {e} :
                         /\ ArrivalOf(r.processes, d[e2].pid)
                               = d[e].intervals[1][2]
                         /\ Cardinality(SlicesWithin(d, e2,
                                d[e].intervals[1][2], d[e].intervals[2][1])) = 1

(***************************************************************************)
(* C25.  A result a schedule call has returned is not changed by any later *)
(* step: its timeline dict, although it was the instance's field during    *)
(* the call, its metrics and its process_stats keep the values they had    *)
(* at the return, whatever calls are made on the instance afterwards.      *)
(***************************************************************************)
ResultsKept ==
    \A k \in DOMAIN results :
        /\ k \in DOMAIN results'
        /\ results'[k] = results[k]
        /\ dicts'[results[k].execution] = dicts[results[k].execution]

\* a returned timeline is no longer the field of its instance once the
\* instance is in a later call, and no two results share one
ResultsApart ==
    /\ \A j, k \in DOMAIN results :
          j # k => results[j].execution # results[k].execution
    /\ pc \in Loops =>
          \A k \in DOMAIN results :
              results[k].execution # sched[frame.alg].execution_timeline

C25_ResultsNotChanged ==
    /\ [][ResultsKept]_vars
    /\ []ResultsApart

\* two results of one instance with different timelines are held while a
\* third call on that instance has recorded an interval
C25_Witness ==
    /\ Len(results) = 2
    /\ results[1].alg = results[2].alg
    /\ TimelineOf(results[1]) # <<>>
    /\ TimelineOf(results[2]) # <<>>
    /\ TimelineOf(results[1]) # TimelineOf(results[2])
    /\ pc = LoopPc(results[1].alg)
    /\ dicts[sched[frame.alg].execution_timeline] # <<>>
    /\ dicts[sched[frame.alg].execution_timeline] # TimelineOf(results[2])

\* a result is held after a later call on its instance raised part-way
C25_WitnessAfterRaise ==
    /\ pc = "raised"
    /\ \E k \in DOMAIN results :
          /\ results[k].alg = frame.alg
          /\ TimelineOf(results[k]) # <<>>
          /\ dicts[sched[frame.alg].execution_timeline] # <<>>
          /\ dicts[sched[frame.alg].execution_timeline] # TimelineOf(results[k])

====
